---- MODULE Spec2Model ----
(***************************************************************************)
(* AutoScraper: Workflow.run and the four adapters it sequences            *)
(* (WindDataFetcher, ExcelPopulator, ExcelScreenshotter, EmailSender),     *)
(* modelled statement by statement from src/autoscraper_workflow.py.       *)
(* Every call that leaves the process (WindPy, openpyxl, Excel COM, the    *)
(* file system, smtplib) either returns or raises; which of the two is     *)
(* chosen by the environment.                                              *)
(***************************************************************************)
EXTENDS Integers, Sequences, FiniteSets, TLC

\* ------------------------------------------------------------- bounds
MaxObs == 2         \* most observations the terminal returns per field
MaxMap == 2         \* most entries of CellMapping.mapping
MaxApply == 2       \* most applications of populate in SpecPopulate

\* ------------------------------------------------------------- inputs
FieldNames == {"open", "close"}             \* fields a DataSpec asks for
MapKeys == {"open", "close", "volume"}      \* keys a CellMapping names
Cells == {"B2", "B3"}

Range(s) == {s[i] : i \in 1..Len(s)}

UniqueSeqs(S, n) ==
    {s \in UNION {[1..k -> S] : k \in 0..n} :
        \A i, j \in 1..Len(s) : i # j => s[i] # s[j]}

\* DataSpec.fields: non-empty lists of distinct field names.
FieldLists == {s \in UniqueSeqs(FieldNames, Cardinality(FieldNames)) : s # <<>>}

\* CellMapping.mapping: a dict, i.e. (key, cell) pairs with distinct keys, in
\* insertion order.
Mappings ==
    {m \in UNION {[1..k -> MapKeys \X Cells] : k \in 0..MaxMap} :
        \A i, j \in 1..Len(m) : i # j => m[i][1] # m[j][1]}

\* Paths are component sequences; the first component "/" makes one absolute.
WorkbookPath == <<"report.xlsx">>
OutputPath == <<"out", "report.png">>
ExtraPath == <<"notes", "extra.txt">>
GhostPath == <<"notes", "ghost.txt">>

Resolve(p) == IF p[1] = "/" THEN p ELSE <<"/", "cwd">> \o p
Basename(p) == p[Len(p)]

\* EmailSpec.attachments as the caller built it: empty, or files of which
\* GhostPath is not on disk.
ExtraLists == {<<>>, <<ExtraPath>>, <<GhostPath>>, <<ExtraPath, GhostPath>>}

\* The sheet as the caller's workbook holds it before the run.
Sheet0 == [c \in Cells |-> IF c = "B2" THEN <<100>> ELSE <<300>>]

\* ------------------------------------------------------------- terminal
Base(f) == CASE f = "open" -> 10 [] f = "close" -> 20 [] OTHER -> 30

\* The terminal's value sequence for field f over n observations.
Series(f, n) == [i \in 1..n |-> Base(f) + i]

\* The order-preserving sub-lists of a field list.
RECURSIVE SubLists(_)
SubLists(s) ==
    IF s = <<>> THEN {<<>>}
    ELSE LET rest == SubLists(Tail(s))
         IN  rest \cup {<<Head(s)>> \o r : r \in rest}

\* What wsd can answer for a request: an error code, or the series of the
\* fields it has data for (in request order), with or without timestamps.
Responses(fs) ==
    {[ErrorCode |-> -40520007, Fields |-> <<>>, Data |-> <<>>, Times |-> <<>>]}
    \cup
    {[ErrorCode |-> 0,
      Fields |-> sub,
      Data |-> [i \in 1..Len(sub) |-> Series(sub[i], n)],
      Times |-> IF t THEN [i \in 1..n |-> 1000 + i] ELSE <<>>] :
        sub \in SubLists(fs), n \in 1..MaxObs, t \in BOOLEAN}

NoResponse == [ErrorCode |-> 0, Fields |-> <<>>, Data |-> <<>>, Times |-> <<>>]
NoPayload == [k \in {} |-> <<>>]

\* fetch, lines 157-164: payload[field] = response.Data[idx] by position, then
\* the timestamps under "times" when there are any.
BuildPayload(fs, r) ==
    [k \in Range(fs) \cup (IF r.Times # <<>> THEN {"times"} ELSE {}) |->
        IF k = "times" THEN r.Times
        ELSE r.Data[CHOOSE i \in 1..Len(fs) : fs[i] = k]]

\* ------------------------------------------------------------- state
VARIABLES
    pc,           \* the statement Workflow.run (or the adapter it called) is at
    fields,       \* DataSpec.fields
    mapping,      \* CellMapping.mapping
    initAtts,     \* EmailSpec.attachments as passed to run
    attachments,  \* EmailSpec.attachments
    response,     \* what wsd answered
    payload,      \* fetch's result
    session,      \* Wind session: "none", "open", "closed"
    disk,         \* the workbook's sheet on disk
    wbMem,        \* the sheet of the workbook openpyxl holds in memory
    idx,          \* position of the loop in progress (mapping / attachments)
    log,          \* logging.warning records
    host,         \* Excel process: "none", "running", "quit"
    comWb,        \* the workbook is open in the Excel process
    chart,        \* the ChartObject exists in the open workbook
    files,        \* resolved paths of the readable files on disk
    wbRet,        \* populate's return value
    shotRet,      \* capture's return value
    msgAtts,      \* filenames of the attachments added to the EmailMessage
    smtp,         \* SMTP connection: "none", "open", "closed"
    sent,         \* messages handed to the server by send_message
    pending,      \* exception in flight inside a with / try block
    err,          \* exception that left run
    failedAt,     \* the step of run that raised
    calls,        \* steps started and calls made to the outside, in order
    applied,      \* completed applications of populate (SpecPopulate)
    firstSheet    \* the sheet after the first application (SpecPopulate)

vars == <<pc, fields, mapping, initAtts, attachments, response, payload, session,
          disk, wbMem, idx, log, host, comWb, chart, files, wbRet, shotRet,
          msgAtts, smtp, sent, pending, err, failedAt, calls, applied, firstSheet>>

inputVars == <<fields, mapping, initAtts>>
windVars == <<response, payload, session>>
popVars == <<disk, wbMem, log, wbRet>>
capVars == <<host, comWb, chart, shotRet>>
mailVars == <<msgAtts, smtp, sent>>
harnessVars == <<applied, firstSheet>>

NoPath == <<>>

\* Everything but the inputs, as it is before any call.
Defaults ==
    /\ attachments = initAtts
    /\ response = NoResponse
    /\ session = "none"
    /\ disk = Sheet0
    /\ wbMem = Sheet0
    /\ idx = 1
    /\ log = <<>>
    /\ host = "none"
    /\ comWb = FALSE
    /\ chart = FALSE
    /\ files = {Resolve(ExtraPath)}
    /\ wbRet = NoPath
    /\ shotRet = NoPath
    /\ msgAtts = <<>>
    /\ smtp = "none"
    /\ sent = <<>>
    /\ pending = "none"
    /\ err = "none"
    /\ failedAt = "none"
    /\ calls = <<>>
    /\ applied = 0
    /\ firstSheet = Sheet0

\* Workflow.run is called with a configuration bundle.
Init ==
    /\ pc = "enter"
    /\ fields \in FieldLists
    /\ mapping \in Mappings
    /\ initAtts \in ExtraLists
    /\ payload = NoPayload
    /\ Defaults

\* An exception leaves run at once: nothing in run catches it.
Abort(step, e) ==
    /\ pc' = "done"
    /\ err' = e
    /\ failedAt' = step
    /\ pending' = "none"

\* ------------------------------------------------------------- step 1: Wind
\* __enter__: wind_client.start(). When it raises, the with body and __exit__
\* do not run.
WindEnter ==
    /\ pc = "enter"
    /\ calls' = calls \o <<"fetch", "start">>
    /\ \E ok \in BOOLEAN :
          IF ok
          THEN /\ session' = "open"
               /\ pc' = "fetch"
               /\ UNCHANGED <<pending, err, failedAt>>
          ELSE /\ session' = "none"
               /\ Abort("fetch", "ConnectionError")
    /\ UNCHANGED <<inputVars, attachments, response, payload, popVars, idx,
                   capVars, files, mailVars, harnessVars>>

\* Mutant: fetch not wrapped in the with statement, so an exception skips stop.
AfterFetchNoExit(inflight) == IF inflight = "none" THEN "exit" ELSE "done"

\* Where run goes when fetch returns or raises: the with statement runs
\* __exit__ on both ways out of its body.
AfterFetch(inflight) == "exit"

\* fetch: one wsd request; a non-zero ErrorCode raises, otherwise the payload
\* is built by indexing response.Data with the position of each field.
WindFetch ==
    /\ pc = "fetch"
    /\ calls' = Append(calls, "wsd")
    /\ \E r \in Responses(fields) :
          /\ response' = r
          /\ IF r.ErrorCode # 0
             THEN /\ pending' = "DataRequestError"
                  /\ failedAt' = "fetch"
                  /\ payload' = NoPayload
             ELSE IF Len(r.Data) < Len(fields)
             THEN /\ pending' = "IndexError"
                  /\ failedAt' = "fetch"
                  /\ payload' = NoPayload
             ELSE /\ payload' = BuildPayload(fields, r)
                  /\ UNCHANGED <<pending, failedAt>>
    /\ pc' = AfterFetch(pending')
    /\ UNCHANGED <<inputVars, attachments, session, popVars, idx, capVars, files,
                   mailVars, err, harnessVars>>

\* Mutant: __exit__ returning True, which swallows the exception.
AfterExitSwallow(inflight) == "load"

\* Where run goes when the with block is left: __exit__ returns None, so an
\* exception raised in the body goes on to the caller.
AfterExit(inflight) == IF inflight = "none" THEN "load" ELSE "done"

\* __exit__: wind_client.stop(), on every way out of the with body.
WindExit ==
    /\ pc = "exit"
    /\ calls' = Append(calls, "stop")
    /\ session' = "closed"
    /\ \E ok \in BOOLEAN :
          IF ok
          THEN /\ pc' = AfterExit(pending)
               /\ err' = pending
               /\ pending' = "none"
               /\ UNCHANGED failedAt
          ELSE Abort("fetch", "LogoutError")
    /\ UNCHANGED <<inputVars, attachments, response, payload, popVars, idx,
                   capVars, files, mailVars, harnessVars>>

\* ------------------------------------------------------------- step 2: populate
HasKey(pl, key) == key \in DOMAIN pl

\* Mutant: the value is appended to what the cell holds.
WriteCellAppend(sh, cell, value) == [sh EXCEPT ![cell] = @ \o value]

\* sheet[cell] = payload[key]
WriteCell(sh, cell, value) == [sh EXCEPT ![cell] = value]

\* logging.warning("Payload does not include key '%s'", key)
LogMissing(lg, key) == Append(lg, <<"WARNING", key>>)

\* Mutant: payload.get(key) written without the membership test, blanking the
\* cell of a missing key.
PopulateEntryBlank(sh, entry, pl) ==
    IF HasKey(pl, entry[1]) THEN WriteCell(sh, entry[2], pl[entry[1]])
    ELSE WriteCell(sh, entry[2], <<>>)

\* One iteration of the loop over spec.mapping.items(), on the sheet.
PopulateEntry(sh, entry, pl) ==
    IF HasKey(pl, entry[1]) THEN WriteCell(sh, entry[2], pl[entry[1]]) ELSE sh

\* Mutant: the workbook is never written back.
SaveWorkbookNothing(onDisk, inMem) == onDisk

\* wb.save(workbook_path): the file takes the in-memory sheet.
SaveWorkbook(onDisk, inMem) == inMem

\* wb = load_workbook(workbook_path)
PopLoad ==
    /\ pc = "load"
    /\ calls' = calls \o <<"populate", "load_workbook">>
    /\ \E ok \in BOOLEAN :
          IF ok
          THEN /\ wbMem' = disk
               /\ pc' = "sheet"
               /\ UNCHANGED <<pending, err, failedAt>>
          ELSE /\ Abort("populate", "WorkbookLoadError")
               /\ UNCHANGED wbMem
    /\ UNCHANGED <<inputVars, attachments, windVars, disk, log, wbRet, idx,
                   capVars, files, mailVars, harnessVars>>

\* sheet = wb[spec.sheet_name]
PopSheet ==
    /\ pc = "sheet"
    /\ \E ok \in BOOLEAN :
          IF ok
          THEN /\ pc' = "pop"
               /\ idx' = 1
               /\ UNCHANGED <<pending, err, failedAt>>
          ELSE /\ Abort("populate", "SheetNotFoundError")
               /\ UNCHANGED idx
    /\ UNCHANGED <<inputVars, attachments, windVars, popVars, capVars, files,
                   mailVars, calls, harnessVars>>

\* for key, cell in spec.mapping.items(): skip with a warning, or write.
PopEntry ==
    /\ pc = "pop"
    /\ idx <= Len(mapping)
    /\ wbMem' = PopulateEntry(wbMem, mapping[idx], payload)
    /\ log' = IF HasKey(payload, mapping[idx][1])
              THEN log
              ELSE LogMissing(log, mapping[idx][1])
    /\ idx' = idx + 1
    /\ UNCHANGED <<pc, inputVars, attachments, windVars, disk, wbRet, capVars,
                   files, mailVars, pending, err, failedAt, calls, harnessVars>>

\* wb.save(workbook_path); return workbook_path
PopSave ==
    /\ pc = "pop"
    /\ idx > Len(mapping)
    /\ calls' = Append(calls, "save")
    /\ \E ok \in BOOLEAN :
          IF ok
          THEN /\ disk' = SaveWorkbook(disk, wbMem)
               /\ files' = files \cup {Resolve(WorkbookPath)}
               /\ wbRet' = WorkbookPath
               /\ pc' = "mkdir"
               /\ UNCHANGED <<pending, err, failedAt>>
          ELSE /\ Abort("populate", "WorkbookSaveError")
               /\ UNCHANGED <<disk, files, wbRet>>
    /\ UNCHANGED <<inputVars, attachments, windVars, wbMem, log, idx, capVars,
                   mailVars, harnessVars>>

\* ------------------------------------------------------------- step 3: capture
\* An exception inside the try block: control goes to the finally clause.
CapRaise(e) ==
    /\ pc' = "quit"
    /\ pending' = e
    /\ failedAt' = "capture"
    /\ UNCHANGED err

CapGoto(next) ==
    /\ pc' = next
    /\ UNCHANGED <<pending, err, failedAt>>

capFrame == <<inputVars, attachments, windVars, popVars, idx, mailVars, harnessVars>>

\* Path(...).resolve(); output_path.parent.mkdir(parents=True, exist_ok=True)
CapMkdir ==
    /\ pc = "mkdir"
    /\ calls' = calls \o <<"capture", "mkdir">>
    /\ \E ok \in BOOLEAN :
          IF ok THEN CapGoto("dispatch") ELSE Abort("capture", "MkdirError")
    /\ UNCHANGED <<capFrame, capVars, files>>

\* excel = win32com.client.Dispatch("Excel.Application"), before the try block
CapDispatch ==
    /\ pc = "dispatch"
    /\ calls' = Append(calls, "Dispatch")
    /\ \E ok \in BOOLEAN :
          IF ok
          THEN /\ host' = "running"
               /\ CapGoto("visible")
          ELSE /\ Abort("capture", "HostLaunchError")
               /\ UNCHANGED host
    /\ UNCHANGED <<capFrame, comWb, chart, shotRet, files>>

\* excel.Visible = False, still before the try block
CapVisible ==
    /\ pc = "visible"
    /\ calls' = Append(calls, "Visible")
    /\ \E ok \in BOOLEAN :
          IF ok THEN CapGoto("open") ELSE Abort("capture", "HostPropertyError")
    /\ UNCHANGED <<capFrame, capVars, files>>

\* workbook = excel.Workbooks.Open(str(workbook_path))
CapOpen ==
    /\ pc = "open"
    /\ calls' = Append(calls, "Workbooks.Open")
    /\ \E ok \in BOOLEAN :
          IF ok
          THEN /\ comWb' = TRUE
               /\ CapGoto("worksheet")
          ELSE /\ CapRaise("WorkbookOpenError")
               /\ UNCHANGED comWb
    /\ UNCHANGED <<capFrame, host, chart, shotRet, files>>

\* worksheet = workbook.Worksheets(spec.sheet_name)
CapWorksheet ==
    /\ pc = "worksheet"
    /\ calls' = Append(calls, "Worksheets")
    /\ \E ok \in BOOLEAN :
          IF ok THEN CapGoto("copy") ELSE CapRaise("SheetNotFoundError")
    /\ UNCHANGED <<capFrame, capVars, files>>

\* worksheet.Range(spec.range_address).CopyPicture()
CapCopyPicture ==
    /\ pc = "copy"
    /\ calls' = Append(calls, "CopyPicture")
    /\ \E ok \in BOOLEAN :
          IF ok THEN CapGoto("addchart") ELSE CapRaise("InvalidRangeError")
    /\ UNCHANGED <<capFrame, capVars, files>>

\* chart = workbook.Worksheets(...).ChartObjects().Add(0, 0, 500, 300)
CapAddChart ==
    /\ pc = "addchart"
    /\ calls' = Append(calls, "ChartObjects.Add")
    /\ \E ok \in BOOLEAN :
          IF ok
          THEN /\ chart' = TRUE
               /\ CapGoto("paste")
          ELSE /\ CapRaise("ChartAddError")
               /\ UNCHANGED chart
    /\ UNCHANGED <<capFrame, host, comWb, shotRet, files>>

\* chart.Chart.Paste()
CapPaste ==
    /\ pc = "paste"
    /\ calls' = Append(calls, "Paste")
    /\ \E ok \in BOOLEAN :
          IF ok THEN CapGoto("export") ELSE CapRaise("PasteError")
    /\ UNCHANGED <<capFrame, capVars, files>>

\* if not chart.Chart.Export(str(output_path)): raise RuntimeError(...)
CapExport ==
    /\ pc = "export"
    /\ calls' = Append(calls, "Export")
    /\ \E exported \in BOOLEAN :
          IF exported
          THEN /\ files' = files \cup {Resolve(OutputPath)}
               /\ CapGoto("delete")
          ELSE /\ CapRaise("CaptureExportError")
               /\ UNCHANGED files
    /\ UNCHANGED <<capFrame, capVars>>

\* chart.Delete(), inside the try block
CapDelete ==
    /\ pc = "delete"
    /\ calls' = Append(calls, "chart.Delete")
    /\ \E ok \in BOOLEAN :
          IF ok
          THEN /\ chart' = FALSE
               /\ CapGoto("close")
          ELSE /\ CapRaise("ChartDeleteError")
               /\ UNCHANGED chart
    /\ UNCHANGED <<capFrame, host, comWb, shotRet, files>>

\* workbook.Close(SaveChanges=0), inside the try block: the file is not written
CapClose ==
    /\ pc = "close"
    /\ calls' = Append(calls, "workbook.Close")
    /\ \E ok \in BOOLEAN :
          IF ok
          THEN /\ comWb' = FALSE
               /\ CapGoto("quit")
          ELSE /\ CapRaise("WorkbookCloseError")
               /\ UNCHANGED comWb
    /\ UNCHANGED <<capFrame, host, chart, shotRet, files>>

\* finally: excel.Quit(); then return output_path, or the exception goes on.
\* comWb and chart keep what they were when Quit was called.
CapQuit ==
    /\ pc = "quit"
    /\ calls' = Append(calls, "excel.Quit")
    /\ host' = "quit"
    /\ \E ok \in BOOLEAN :
          IF ~ok
          THEN /\ Abort("capture", "HostQuitError")
               /\ UNCHANGED shotRet
          ELSE IF pending # "none"
          THEN /\ Abort("capture", pending)
               /\ UNCHANGED shotRet
          ELSE /\ shotRet' = Resolve(OutputPath)
               /\ CapGoto("extend")
    /\ UNCHANGED <<capFrame, comWb, chart, files>>

\* ------------------------------------------------------------- step 4: attachments
\* Mutant: the two paths appended in the other order.
ExtendListSwapped(atts, wb, shot) == atts \o <<shot, wb>>

\* email_spec.attachments.extend([workbook_path, screenshot_path])
ExtendList(atts, wb, shot) == atts \o <<wb, shot>>

RunExtend ==
    /\ pc = "extend"
    /\ calls' = Append(calls, "extend")
    /\ attachments' = ExtendList(attachments, wbRet, shotRet)
    /\ pc' = "compose"
    /\ UNCHANGED <<inputVars, windVars, popVars, idx, capVars, files, mailVars,
                   pending, err, failedAt, harnessVars>>

\* ------------------------------------------------------------- step 5: send
\* Mutant: a missing file read as empty data instead of raising.
CanReadAlways(p, fs) == TRUE

\* attachment.read_bytes() returns the data of a readable file.
CanRead(p, fs) == Resolve(p) \in fs

\* An exception inside the with smtplib.SMTP(...) block: SMTP.__exit__ runs.
SmtpRaise(e) ==
    /\ pc' = "smtpexit"
    /\ pending' = e
    /\ failedAt' = "send"
    /\ UNCHANGED err

sendFrame == <<inputVars, attachments, windVars, popVars, capVars, files, harnessVars>>

\* message = EmailMessage(); headers; set_content
SendCompose ==
    /\ pc = "compose"
    /\ calls' = Append(calls, "send")
    /\ msgAtts' = <<>>
    /\ idx' = 1
    /\ pc' = "attach"
    /\ UNCHANGED <<sendFrame, smtp, sent, pending, err, failedAt>>

\* for attachment in self.spec.attachments: read_bytes(); add_attachment(...,
\* filename=attachment.name)
SendAttach ==
    /\ pc = "attach"
    /\ idx <= Len(attachments)
    /\ calls' = Append(calls, "read_bytes")
    /\ IF CanRead(attachments[idx], files)
       THEN /\ msgAtts' = Append(msgAtts, Basename(attachments[idx]))
            /\ idx' = idx + 1
            /\ UNCHANGED <<pc, pending, err, failedAt>>
       ELSE /\ Abort("send", "AttachmentReadError")
            /\ UNCHANGED <<msgAtts, idx>>
    /\ UNCHANGED <<sendFrame, smtp, sent>>

\* smtplib.SMTP(host, port): the constructor connects
SendConnect ==
    /\ pc = "attach"
    /\ idx > Len(attachments)
    /\ calls' = Append(calls, "SMTP")
    /\ \E ok \in BOOLEAN :
          IF ok
          THEN /\ smtp' = "open"
               /\ pc' = "starttls"
               /\ UNCHANGED <<pending, err, failedAt>>
          ELSE /\ Abort("send", "SMTPConnectError")
               /\ UNCHANGED smtp
    /\ UNCHANGED <<sendFrame, msgAtts, idx, sent>>

\* client.starttls()
SendStartTls ==
    /\ pc = "starttls"
    /\ calls' = Append(calls, "starttls")
    /\ \E ok \in BOOLEAN :
          IF ok
          THEN /\ pc' = "login"
               /\ UNCHANGED <<pending, err, failedAt>>
          ELSE SmtpRaise("TlsError")
    /\ UNCHANGED <<sendFrame, mailVars, idx>>

\* Where send goes after client.login: on when the server accepted the
\* credentials, out with the authentication error when it rejected them.
AfterLogin(accepted) == IF accepted THEN "sendmsg" ELSE "smtpexit"

\* client.login(username, password)
SendLogin ==
    /\ pc = "login"
    /\ calls' = Append(calls, "login")
    /\ \E accepted \in BOOLEAN :
          /\ pc' = AfterLogin(accepted)
          /\ pending' = IF accepted THEN pending ELSE "AuthenticationError"
          /\ failedAt' = IF accepted THEN failedAt ELSE "send"
    /\ UNCHANGED <<sendFrame, mailVars, idx, err>>

\* client.send_message(message)
SendMessage ==
    /\ pc = "sendmsg"
    /\ calls' = Append(calls, "send_message")
    /\ \E ok \in BOOLEAN :
          IF ok
          THEN /\ sent' = Append(sent, msgAtts)
               /\ pc' = "smtpexit"
               /\ UNCHANGED <<pending, err, failedAt>>
          ELSE /\ SmtpRaise("DeliverySendError")
               /\ UNCHANGED sent
    /\ UNCHANGED <<sendFrame, msgAtts, smtp, idx>>

\* SMTP.__exit__: the connection is closed; an exception goes on to the caller
SendExit ==
    /\ pc = "smtpexit"
    /\ smtp' = "closed"
    /\ pc' = "done"
    /\ err' = pending
    /\ pending' = "none"
    /\ UNCHANGED <<sendFrame, msgAtts, sent, idx, failedAt, calls>>

\* ------------------------------------------------------------- run
Next == WindEnter \/ WindFetch \/ WindExit
     \/ PopLoad \/ PopSheet \/ PopEntry \/ PopSave
     \/ CapMkdir \/ CapDispatch \/ CapVisible \/ CapOpen \/ CapWorksheet
     \/ CapCopyPicture \/ CapAddChart \/ CapPaste \/ CapExport \/ CapDelete
     \/ CapClose \/ CapQuit
     \/ RunExtend
     \/ SendCompose \/ SendAttach \/ SendConnect \/ SendStartTls \/ SendLogin
     \/ SendMessage \/ SendExit

Spec == Init /\ [][Next]_vars

\* ------------------------------------------------------------- populate alone
\* ExcelPopulator.populate called directly, with any payload, and called again
\* with the same arguments on the workbook it left or on a fresh copy of it.
Payloads == {[k \in ks |-> Series(k, n)] : ks \in SUBSET MapKeys, n \in 1..MaxObs}

InitPopulate ==
    /\ pc = "load"
    /\ fields = <<>>
    /\ mapping \in Mappings
    /\ initAtts = <<>>
    /\ payload \in Payloads
    /\ Defaults

populateFrame == <<inputVars, attachments, windVars, wbMem, log, wbRet, idx, capVars,
                   files, mailVars, pending, err, failedAt, calls>>

\* populate has returned; the caller calls it again on the same workbook.
PopAgain ==
    /\ pc = "mkdir"
    /\ applied < MaxApply
    /\ applied' = applied + 1
    /\ firstSheet' = IF applied = 0 THEN disk ELSE firstSheet
    /\ pc' = "load"
    /\ UNCHANGED <<populateFrame, disk>>

\* populate has returned; the caller calls it again on a fresh copy.
PopFresh ==
    /\ pc = "mkdir"
    /\ applied < MaxApply
    /\ applied' = applied + 1
    /\ firstSheet' = IF applied = 0 THEN disk ELSE firstSheet
    /\ disk' = Sheet0
    /\ pc' = "load"
    /\ UNCHANGED populateFrame

NextPopulate == PopLoad \/ PopSheet \/ PopEntry \/ PopSave \/ PopAgain \/ PopFresh

SpecPopulate == InitPopulate /\ [][NextPopulate]_vars

\* ------------------------------------------------------------- properties
Steps == <<"fetch", "populate", "capture", "extend", "send">>
IsStep(c) == c \in Range(Steps)
StepsStarted == SelectSeq(calls, IsStep)

\* calls run makes at most once
OnceOnly == {"start", "wsd", "stop", "load_workbook", "save", "mkdir", "Dispatch",
             "excel.Quit", "extend", "SMTP", "starttls", "login", "send_message"}
NetCalls == {"SMTP", "starttls", "login", "send_message"}

Pos(c) == {i \in 1..Len(calls) : calls[i] = c}
Count(c) == Cardinality(Pos(c))
Called(c) == \E i \in 1..Len(calls) : calls[i] = c
\* every call c comes before every call d
Before(c, d) == \A i \in Pos(c) : \A j \in Pos(d) : i < j
IsOnceOnly(c) == c \in OnceOnly
IsPrefix(s, t) == Len(s) <= Len(t) /\ \A i \in 1..Len(s) : s[i] = t[i]


\* C1: the steps run in the order fetch, populate, capture, append, send, each
\* at most once; when a step raises, it is the last step started (so send is
\* never started after a failed fetch, populate or capture), run ends with the
\* error, and no outside call is repeated.
C1_OrderedFailFast ==
    /\ IsPrefix(StepsStarted, Steps)
    /\ failedAt # "none" =>
          /\ StepsStarted # <<>>
          /\ StepsStarted[Len(StepsStarted)] = failedAt
    /\ (pc = "done" /\ failedAt # "none") => err # "none"
    /\ err # "none" => (pc = "done" /\ failedAt # "none")
    /\ Len(SelectSeq(calls, IsOnceOnly)) = Cardinality(Range(calls) \cap OnceOnly)

\* A run in which capture raised after fetch and populate had succeeded.
C1_Witness ==
    /\ pc = "done"
    /\ failedAt = "capture"
    /\ err = "CaptureExportError"
    /\ StepsStarted = <<"fetch", "populate", "capture">>

\* C2: once the Excel process has been launched, capture does not return or
\* raise before Quit has been called on it.
C2_HostAlwaysQuit ==
    (host # "none" /\ pc \in {"extend", "compose", "attach", "starttls", "login",
                              "sendmsg", "smtpexit", "done"})
        => host = "quit"

\* C3: when Quit is called, the chart created in the workbook has been deleted
\* and the workbook opened in the host has been closed, on every way out.
C3_CleanupBeforeQuit ==
    Called("excel.Quit") =>
        /\ ~chart
        /\ ~comWb
        /\ Before("chart.Delete", "workbook.Close")
        /\ Before("workbook.Close", "excel.Quit")

\* C4: when the session was acquired, stop is called exactly once, whether
\* fetch returned or raised, before populate starts; the session is open only
\* while run is inside the with block.
C4_SessionScoped ==
    /\ Count("stop") <= 1
    /\ session = "open" => pc \in {"fetch", "exit"}
    /\ (session # "none" /\ pc \notin {"fetch", "exit"}) =>
          /\ session = "closed"
          /\ Count("stop") = 1
    /\ Called("populate") => (Called("stop") /\ Before("stop", "populate"))
    /\ Called("stop") => Before("start", "stop") /\ Before("wsd", "stop")

\* The session was acquired, fetch raised, and run has ended.
C4_Witness ==
    /\ pc = "done"
    /\ err = "DataRequestError"
    /\ session = "closed"
    /\ Count("stop") = 1

\* C5: every attachment is read before any SMTP call; with an unreadable
\* attachment in the list send ends with the attachment-read error and no
\* network call; with rejected credentials it ends with the authentication
\* error and nothing sent.
C5_ReadBeforeNetwork ==
    /\ (Called("send") /\ \E i \in 1..Len(attachments) : Resolve(attachments[i]) \notin files) =>
          /\ \A c \in NetCalls : ~Called(c)
          /\ smtp = "none"
          /\ pc = "done" => err = "AttachmentReadError"
    /\ (\E c \in NetCalls : Called(c)) =>
          /\ Count("read_bytes") = Len(attachments)
          /\ Len(msgAtts) = Len(attachments)
          /\ Before("read_bytes", "SMTP")
    /\ (pc = "done" /\ Called("login") /\ ~Called("send_message")) =>
          /\ err = "AuthenticationError"
          /\ sent = <<>>
    /\ err = "AuthenticationError" => (sent = <<>> /\ ~Called("send_message"))

\* send ended on an attachment that is not on disk, after reading another.
C5_Witness ==
    /\ pc = "done"
    /\ err = "AttachmentReadError"
    /\ Called("read_bytes")
    /\ \A c \in NetCalls : ~Called(c)

\* C6: the attachment list is the caller's list until the append step, and the
\* caller's list followed by the workbook path and the screenshot path from
\* then on; it is untouched when fetch, populate or capture failed; the
\* message sent carries the basenames of exactly that list.
C6_AttachmentsOnce ==
    /\ attachments = IF Called("extend")
                     THEN initAtts \o <<WorkbookPath, Resolve(OutputPath)>>
                     ELSE initAtts
    /\ Called("extend") =>
          /\ shotRet = Resolve(OutputPath)
          /\ wbRet = WorkbookPath
          /\ failedAt \notin {"fetch", "populate", "capture"}
    /\ Called("send") => Before("extend", "send")
    /\ failedAt \in {"fetch", "populate", "capture"} => attachments = initAtts
    /\ Len(sent) <= 1
    /\ sent # <<>> =>
          /\ sent[1] = [i \in 1..Len(attachments) |-> Basename(attachments[i])]
          /\ initAtts = <<>> => sent[1] = <<"report.xlsx", "report.png">>

\* A message sent from an initially empty list.
C6_Witness ==
    /\ pc = "done"
    /\ initAtts = <<>>
    /\ Len(sent) = 1
    /\ Len(sent[1]) = 2

\* The cell's value after the pairs 1..n of the mapping were applied to the
\* sheet as the workbook held it: that of the last pair whose key the payload
\* has, the old value when there is none.
Expected(c, n) ==
    LET W == {i \in 1..n : mapping[i][2] = c /\ mapping[i][1] \in DOMAIN payload}
    IN  IF W = {} THEN Sheet0[c]
        ELSE payload[mapping[CHOOSE i \in W : \A j \in W : j <= i][1]]

MissingUpTo(n) == {i \in 1..n : mapping[i][1] \notin DOMAIN payload}

\* C7: in populate, a pair whose key the payload lacks costs one warning and
\* leaves the sheet alone, a pair whose key it has is written, whatever comes
\* before or after; no error comes from a missing key; the workbook is saved
\* with those cells and its path returned.
C7_MissingKeysSkipped ==
    /\ pc = "pop" =>
          /\ err = "none"
          /\ \A c \in Cells : wbMem[c] = Expected(c, idx - 1)
          /\ Len(log) = Cardinality(MissingUpTo(idx - 1))
          /\ \A i \in MissingUpTo(idx - 1) :
                Cardinality({j \in 1..Len(log) : log[j] = <<"WARNING", mapping[i][1]>>}) = 1
    /\ failedAt = "populate" =>
          err \in {"WorkbookLoadError", "SheetNotFoundError", "WorkbookSaveError"}
    /\ Called("capture") =>
          /\ \A c \in Cells : disk[c] = Expected(c, Len(mapping))
          /\ Len(log) = Cardinality(MissingUpTo(Len(mapping)))
          /\ wbRet = WorkbookPath

\* populate returned after skipping a missing key and then writing a present one.
C7_Witness ==
    /\ pc = "mkdir"
    /\ Len(mapping) = 2
    /\ mapping[1][1] \notin DOMAIN payload
    /\ mapping[2][1] \in DOMAIN payload
    /\ Len(log) = 1
    /\ disk[mapping[2][2]] = payload[mapping[2][1]]

\* C8: after fetch, a zero error code means no error and a payload whose
\* field keys are the fields the terminal returned, each with the terminal's
\* series for it, as long as the timestamps when there are any; a non-zero
\* error code means the data-request error and no payload.
C8_PayloadIsReturnedSubset ==
    pc = "exit" =>
        IF response.ErrorCode # 0
        THEN pending = "DataRequestError" /\ payload = NoPayload
        ELSE /\ pending = "none"
             /\ DOMAIN payload \ {"times"} = Range(response.Fields)
             /\ \A i \in 1..Len(response.Fields) :
                   /\ payload[response.Fields[i]] = response.Data[i]
                   /\ response.Times # <<>> =>
                         Len(payload[response.Fields[i]]) = Len(response.Times)
             /\ response.Times # <<>> => payload["times"] = response.Times
             /\ response.Times = <<>> => "times" \notin DOMAIN payload

\* C9: when capture or send failed, the sheet on disk is the populated one,
\* nothing has been sent, populate and capture were each called once, and
\* (for send) the screenshot and workbook files are on disk.
C9_NoRollback ==
    /\ failedAt \in {"capture", "send"} =>
          /\ \A c \in Cells : disk[c] = Expected(c, Len(mapping))
          /\ sent = <<>>
          /\ Count("populate") = 1
          /\ Count("capture") = 1
          /\ Count("load_workbook") = 1
          /\ Count("save") = 1
          /\ Count("Dispatch") <= 1
    /\ failedAt = "send" =>
          /\ Resolve(OutputPath) \in files
          /\ Resolve(WorkbookPath) \in files

\* send failed after populate changed the sheet and capture wrote the image.
C9_Witness ==
    /\ pc = "done"
    /\ failedAt = "send"
    /\ err = "DeliverySendError"
    /\ disk # Sheet0
    /\ Resolve(OutputPath) \in files

\* C10: a second application of populate with the same mapping and payload,
\* to the populated workbook or to a fresh copy, leaves the sheet as the
\* first application left it.
C10_PopulateIdempotent ==
    (applied >= 1 /\ pc = "mkdir") => disk = firstSheet

\* populate was applied again to a workbook the first application changed.
C10_Witness ==
    /\ applied >= 1
    /\ pc = "mkdir"
    /\ disk # Sheet0
    /\ Len(mapping) = 2
    /\ mapping[1][2] = mapping[2][2]

====
